---- MODULE Spec2Model ----
(***************************************************************************)
(* Model of src/os_practice/multiprogramming_simulator.py: the Process     *)
(* control block, MemoryManager (allocate / deallocate) and CPUScheduler   *)
(* (add_process / schedule).  The two managers are separate objects that   *)
(* never call each other, so each has its own specification over the       *)
(* shared variables.                                                       *)
(***************************************************************************)
EXTENDS Integers, Sequences, FiniteSets, TLC

\* ---------------------------------------------------------------- bounds
NumProcs == 3        \* Process objects in a round-robin run
NumObjs == 2         \* Process objects in a run of arbitrary scheduler calls
MaxAdds == 3         \* add_process calls in one run
MaxBurst == 2        \* largest cpu_burst / remaining_time of a Process
NumPids == 2         \* pids handed to the MemoryManager
MaxSize == 2         \* largest size handed to allocate
total_memory == 3    \* MemoryManager(total_memory)
NumApps == 2         \* application names the Dock enumeration can report
MaxTicks == 2        \* iterations of the start() loop that are counted
NumThreads == 2      \* threads that call into the MemoryManager
MaxCalls == 2        \* calls of one thread into the MemoryManager

\* ------------------------------------------------------ program constants
time_quantum == 2    \* CPUScheduler(time_quantum), default of the simulator
MaxPriority == 3     \* priority = random.randint(1, 3)

Procs == 1..NumProcs
Pids == 1..NumPids
Sizes == 0..MaxSize
Priorities == 1..MaxPriority
Apps == 1..NumApps
Threads == 1..NumThreads
None == 0

ProcessState == {"NEW", "READY", "RUNNING", "WAITING", "TERMINATED"}

\* "ABSENT" marks a Process object that has not been constructed yet
Absent == "ABSENT"

VARIABLES
  available_memory,   \* MemoryManager.available_memory
  allocated_memory,   \* MemoryManager.allocated_memory : pid -> size
  ready_queue,        \* CPUScheduler.ready_queue (FIFO of Process objects)
  current_process,    \* CPUScheduler.current_process (None = 0)
  processes,          \* CPUScheduler.processes (list of every added object)
  state,              \* Process.state, per object
  remaining_time,     \* Process.remaining_time, per object
  cpu_burst,          \* Process.cpu_burst, per object
  memory_allocated,   \* Process.memory_allocated, per object
  pid_of,             \* Process.pid, per object
  priority,           \* Process.priority, per object
  memory_required,    \* Process.memory_required, per object
  running,            \* MultiprogrammingSimulator.running
  dock_apps,          \* DockMonitor.dock_apps (list of application names)
  pc,                 \* where main() / start() stands
  ticks,              \* iterations of the start() loop completed
  op,                 \* the last call made and the value it returned
  turns,              \* per object: schedule() calls that selected it
  wait,               \* per object: schedule() calls that selected another
                      \* object since it was queued or last selected
  shadow,             \* a second run of the scheduler that receives the same
                      \* calls on Process objects of other priorities
  threads             \* per thread calling into the MemoryManager: the
                      \* statement it is at, its arguments, the value it
                      \* has read and the calls it has made

memVars == <<available_memory, allocated_memory>>
schedVars == <<ready_queue, current_process, processes>>
pcbVars == <<state, remaining_time, cpu_burst, memory_allocated, pid_of,
            priority, memory_required>>
histVars == <<turns, wait>>
loopVars == <<running, dock_apps, pc, ticks>>
vars == <<available_memory, allocated_memory, ready_queue, current_process,
          processes, state, remaining_time, cpu_burst, memory_allocated,
          pid_of, priority, memory_required, running, dock_apps, pc,
          ticks, op, turns, wait, shadow, threads>>

\* ---------------------------------------------------------------- helpers
Min(a, b) == IF a <= b THEN a ELSE b

CeilDiv(a, b) == (a + b - 1) \div b

Range(s) == {s[i] : i \in 1..Len(s)}

RECURSIVE SumValues(_)
SumValues(f) ==
  IF DOMAIN f = {} THEN 0
  ELSE LET k == CHOOSE x \in DOMAIN f : TRUE
       IN f[k] + SumValues([p \in DOMAIN f \ {k} |-> f[p]])

\* dict[pid] = size
DictSet(d, k, v) == [p \in DOMAIN d \cup {k} |-> IF p = k THEN v ELSE d[p]]

\* del dict[pid]
DictDel(d, k) == [p \in DOMAIN d \ {k} |-> d[p]]

EmptyDict == [p \in {} |-> 0]

WaitCap == NumProcs + 1
TurnCap == CeilDiv(MaxBurst, time_quantum) + 1

Call(name, pid, size, ret) ==
  [name |-> name, pid |-> pid, size |-> size, ret |-> ret]

\* ---------------------------------------------------------- MemoryManager
\* allocate without the capacity test
allocate_unchecked(avail, alloc, pid, size) ==
  [ret |-> TRUE,
   available_memory |-> avail - size,
   allocated_memory |-> DictSet(alloc, pid, size)]

\* allocate testing > where the code tests >=
allocate_strict(avail, alloc, pid, size) ==
  IF avail > size
    THEN [ret |-> TRUE,
          available_memory |-> avail - size,
          allocated_memory |-> DictSet(alloc, pid, size)]
    ELSE [ret |-> FALSE,
          available_memory |-> avail,
          allocated_memory |-> alloc]

\* allocate replacing the whole dict instead of setting one key
allocate_clobber(avail, alloc, pid, size) ==
  IF avail >= size
    THEN [ret |-> TRUE,
          available_memory |-> avail - size,
          allocated_memory |-> DictSet(EmptyDict, pid, size)]
    ELSE [ret |-> FALSE,
          available_memory |-> avail,
          allocated_memory |-> alloc]

\* allocate(pid, size): the pool after the call and the value returned
allocate(avail, alloc, pid, size) ==
  IF avail >= size
    THEN [ret |-> TRUE,
          available_memory |-> avail - size,
          allocated_memory |-> DictSet(alloc, pid, size)]
    ELSE [ret |-> FALSE,
          available_memory |-> avail,
          allocated_memory |-> alloc]

\* deallocate giving the memory back without deleting the key
deallocate_keep(avail, alloc, pid) ==
  IF pid \in DOMAIN alloc
    THEN [available_memory |-> avail + alloc[pid],
          allocated_memory |-> alloc]
    ELSE [available_memory |-> avail,
          allocated_memory |-> alloc]

\* deallocate(pid): the pool after the call
deallocate(avail, alloc, pid) ==
  IF pid \in DOMAIN alloc
    THEN [available_memory |-> avail + alloc[pid],
          allocated_memory |-> DictDel(alloc, pid)]
    ELSE [available_memory |-> avail,
          allocated_memory |-> alloc]

Allocate(pid, size) ==
  LET r == allocate(available_memory, allocated_memory, pid, size)
  IN /\ available_memory' = r.available_memory
     /\ allocated_memory' = r.allocated_memory
     /\ op' = Call("allocate", pid, size, r.ret)
     /\ UNCHANGED <<schedVars, pcbVars, histVars, loopVars, shadow, threads>>

Deallocate(pid) ==
  LET r == deallocate(available_memory, allocated_memory, pid)
  IN /\ available_memory' = r.available_memory
     /\ allocated_memory' = r.allocated_memory
     /\ op' = Call("deallocate", pid, 0, TRUE)
     /\ UNCHANGED <<schedVars, pcbVars, histVars, loopVars, shadow, threads>>

\* ---------------------------------------------------------------- Process
\* Process(pid, name, priority, memory_required, cpu_burst, state,
\*         remaining_time, memory_allocated): a caller constructs object o
NewProcess(o, id, prio, req, rt, burst, m) ==
  /\ state[o] = Absent
  /\ state' = [state EXCEPT ![o] = "NEW"]
  /\ pid_of' = [pid_of EXCEPT ![o] = id]
  /\ priority' = [priority EXCEPT ![o] = prio]
  /\ memory_required' = [memory_required EXCEPT ![o] = req]
  /\ remaining_time' = [remaining_time EXCEPT ![o] = rt]
  /\ cpu_burst' = [cpu_burst EXCEPT ![o] = burst]
  /\ memory_allocated' = [memory_allocated EXCEPT ![o] = m]
  /\ op' = Call("Process", o, 0, TRUE)
  /\ UNCHANGED <<memVars, schedVars, histVars, loopVars>>

\* create_process_from_dock(app_name, app_info): dock_apps is the list that
\* get_dock_apps returned, so dock_apps.get(...) on its first line raises
\* AttributeError before any Process is constructed
create_process_from_dock ==
  /\ op' = Call("create_process_from_dock", 0, 0, FALSE)
  /\ UNCHANGED <<memVars, schedVars, pcbVars, histVars, loopVars, shadow, threads>>

\* ----------------------------------------------------------- CPUScheduler
\* a put that inserts at the head of the queue
QueuePut_front(q, p) == <<p>> \o q

\* Queue.put
QueuePut(q, p) == Append(q, p)

\* a get that hands out the newest item
QueueGet_last(q) == q[Len(q)]

\* Queue.get: the item returned
QueueGet(q) == Head(q)

\* a get() that hands out the head and leaves it in the queue
QueueRest_keep(q) == q

\* Queue.get: the queue left behind
QueueRest(q) == Tail(q)

\* add_process(process): what lines 79-80 make of the queue and the states
add_result(q, st, p) ==
  [ready_queue |-> QueuePut(q, p),
   state |-> [st EXCEPT ![p] = "READY"]]

add_process(p) ==
  /\ state[p] # Absent
  /\ processes' = Append(processes, p)
  /\ ready_queue' = add_result(ready_queue, state, p).ready_queue
  /\ state' = add_result(ready_queue, state, p).state
  /\ wait' = [wait EXCEPT ![p] = 0]
  /\ op' = Call("add_process", p, 0, TRUE)
  /\ UNCHANGED <<memVars, current_process, remaining_time, cpu_burst,
                 memory_allocated, pid_of, priority, memory_required, turns,
                 loopVars>>

\* the first if of schedule(): is the current process put back
ShouldRequeue(cur, st, rt) ==
  /\ cur # None
  /\ st[cur] = "RUNNING"
  /\ rt[cur] > 0

Requeue(cur) == ShouldRequeue(cur, state, remaining_time)

\* a schedule() that dispatches the waiting process of the highest priority
schedule_by_priority(q, cur, st, rt, prio) ==
  LET q1 == IF ShouldRequeue(cur, st, rt) THEN QueuePut(q, cur) ELSE q
      st1 == IF ShouldRequeue(cur, st, rt)
               THEN [st EXCEPT ![cur] = "READY"] ELSE st
  IN IF q1 # <<>>
       THEN LET i == CHOOSE k \in DOMAIN q1 :
                        /\ \A j \in DOMAIN q1 : prio[q1[j]] <= prio[q1[k]]
                        /\ \A j \in 1..(k - 1) : prio[q1[j]] < prio[q1[k]]
            IN [selected |-> TRUE,
                current_process |-> q1[i],
                ready_queue |-> SubSeq(q1, 1, i - 1)
                                  \o SubSeq(q1, i + 1, Len(q1)),
                state |-> [st1 EXCEPT ![q1[i]] = "RUNNING"]]
       ELSE [selected |-> FALSE,
             current_process |-> cur,
             ready_queue |-> q1,
             state |-> st1]

\* schedule(): what lines 84-91 make of the queue q, the current process and
\* the states st of Process objects with remaining times rt and priorities
\* prio
schedule_result(q, cur, st, rt, prio) ==
  LET q1 == IF ShouldRequeue(cur, st, rt) THEN QueuePut(q, cur) ELSE q
      st1 == IF ShouldRequeue(cur, st, rt)
               THEN [st EXCEPT ![cur] = "READY"] ELSE st
  IN IF q1 # <<>>
       THEN [selected |-> TRUE,
             current_process |-> QueueGet(q1),
             ready_queue |-> QueueRest(q1),
             state |-> [st1 EXCEPT ![QueueGet(q1)] = "RUNNING"]]
       ELSE [selected |-> FALSE,
             current_process |-> cur,
             ready_queue |-> q1,
             state |-> st1]

schedule ==
  LET r == schedule_result(ready_queue, current_process, state,
                           remaining_time, priority)
      nxt == r.current_process
  IN /\ current_process' = r.current_process
     /\ ready_queue' = r.ready_queue
     /\ state' = r.state
     /\ IF r.selected
          THEN /\ turns' = [turns EXCEPT ![nxt] = Min(@ + 1, TurnCap)]
               /\ wait' = [p \in Procs |->
                             IF p = nxt THEN 0
                             ELSE IF p \in Range(r.ready_queue)
                                    THEN Min(wait[p] + 1, WaitCap)
                                    ELSE wait[p]]
          ELSE UNCHANGED histVars
     /\ op' = Call("schedule", 0, 0, TRUE)
     /\ UNCHANGED <<memVars, processes, remaining_time, cpu_burst,
                    memory_allocated, pid_of, priority, memory_required,
                    loopVars>>

\* ------------------------------------------------------------ second run
\* the second run before any call
NoShadow ==
  [ready_queue |-> <<>>,
   current_process |-> None,
   state |-> [p \in Procs |-> Absent],
   priority |-> [p \in Procs |-> 0]]

\* Process(...) in the second run: the same object with priority prio
ShadowNew(o, prio) ==
  shadow' = [shadow EXCEPT !.state[o] = "NEW", !.priority[o] = prio]

\* add_process(p) in the second run
ShadowAdd(p) ==
  LET r == add_result(shadow.ready_queue, shadow.state, p)
  IN shadow' = [shadow EXCEPT !.ready_queue = r.ready_queue,
                              !.state = r.state]

\* schedule() in the second run
ShadowSchedule ==
  LET r == schedule_result(shadow.ready_queue, shadow.current_process,
                           shadow.state, remaining_time, shadow.priority)
  IN shadow' = [shadow EXCEPT !.ready_queue = r.ready_queue,
                              !.current_process = r.current_process,
                              !.state = r.state]

\* ---------------------------------------------- MultiprogrammingSimulator
\* what get_dock_apps can return: any list of application names, the empty
\* list when osascript prints nothing
RECURSIVE SeqsUpTo(_, _)
SeqsUpTo(S, n) ==
  IF n = 0 THEN {<<>>}
  ELSE LET shorter == SeqsUpTo(S, n - 1)
       IN shorter \cup {Append(q, a) : q \in shorter, a \in S}

Snapshots == SeqsUpTo(Apps, NumApps)

progVars == <<memVars, schedVars, pcbVars, histVars, shadow, threads>>

\* main(): MultiprogrammingSimulator() builds a DockMonitor, whose __init__
\* calls update_dock_apps(); the call stands outside every try
Construct ==
  /\ pc = "main"
  /\ \/ \E apps \in Snapshots :
          /\ dock_apps' = apps
          /\ pc' = "start"
          /\ op' = Call("MultiprogrammingSimulator", 0, Len(apps), TRUE)
     \/ /\ pc' = "crashed"
        /\ op' = Call("MultiprogrammingSimulator", 0, 0, FALSE)
        /\ UNCHANGED dock_apps
  /\ UNCHANGED <<progVars, running, ticks>>

\* start(): self.running = True
Start ==
  /\ pc = "start"
  /\ running' = TRUE
  /\ pc' = "while"
  /\ op' = Call("start", 0, 0, TRUE)
  /\ UNCHANGED <<progVars, dock_apps, ticks>>

\* while self.running:
WhileTest ==
  /\ pc = "while"
  /\ pc' = IF running THEN "display" ELSE "returned"
  /\ op' = Call("while", 0, 0, running)
  /\ UNCHANGED <<progVars, running, dock_apps, ticks>>

\* the handlers of start(): both clear self.running
Handler == running' = FALSE /\ pc' = "while"

\* display_status() with update_dock_apps() returning a list
DisplayStatus ==
  /\ pc = "display"
  /\ \E apps \in Snapshots :
       /\ dock_apps' = apps
       /\ op' = Call("display_status", 0, Len(apps), TRUE)
  /\ pc' = "sleep"
  /\ UNCHANGED <<progVars, running, ticks>>

\* display_status() with subprocess.run raising inside get_dock_apps: the
\* except Exception handler runs
DisplayRaises ==
  /\ pc = "display"
  /\ Handler
  /\ op' = Call("display_status", 0, 0, FALSE)
  /\ UNCHANGED <<progVars, dock_apps, ticks>>

\* time.sleep(2) returns: one iteration is complete
Sleep ==
  /\ pc = "sleep"
  /\ pc' = "while"
  /\ ticks' = Min(ticks + 1, MaxTicks)
  /\ op' = Call("sleep", 0, 0, TRUE)
  /\ UNCHANGED <<progVars, running, dock_apps>>

\* Ctrl-C while display_status() or sleep() runs: the except
\* KeyboardInterrupt handler runs
KeyboardInterrupt ==
  /\ pc \in {"display", "sleep"}
  /\ Handler
  /\ op' = Call("KeyboardInterrupt", 0, 0, FALSE)
  /\ UNCHANGED <<progVars, dock_apps, ticks>>

\* Ctrl-C while the loop condition is evaluated, outside the try of start():
\* the exception leaves start() and is caught by main()
InterruptOutsideTry ==
  /\ pc = "while"
  /\ pc' = "returned"
  /\ op' = Call("KeyboardInterrupt", 0, 0, TRUE)
  /\ UNCHANGED <<progVars, running, dock_apps, ticks>>

\* ------------------------------------------- MemoryManager, by statement
\* allocate and deallocate as the statements that threads interleave; no
\* statement acquires the lock of the simulator

\* a thread outside the MemoryManager after n calls
Idle(n) == [pc |-> "idle", pid |-> 0, size |-> 0, tmp |-> 0, calls |-> n]

\* a thread leaves its call
Return(t) == threads' = [threads EXCEPT ![t] = Idle(threads[t].calls)]

\* a thread moves to statement l
Goto(t, l) == threads' = [threads EXCEPT ![t].pc = l]

threadFrame == <<schedVars, pcbVars, histVars, loopVars, shadow>>

\* a thread calls allocate(pid, size)
CallAllocate(t, pid, size) ==
  /\ threads[t].pc = "idle"
  /\ threads[t].calls < MaxCalls
  /\ threads' = [threads EXCEPT ![t] =
                   [pc |-> "allocate_if", pid |-> pid, size |-> size,
                    tmp |-> 0, calls |-> @.calls + 1]]
  /\ UNCHANGED <<memVars, op, threadFrame>>

\* if self.available_memory >= size:  ...  return False
AllocateIf(t) ==
  /\ threads[t].pc = "allocate_if"
  /\ IF available_memory >= threads[t].size
       THEN Goto(t, "allocate_load") /\ UNCHANGED op
       ELSE /\ Return(t)
            /\ op' = Call("allocate", threads[t].pid, threads[t].size, FALSE)
  /\ UNCHANGED <<memVars, threadFrame>>

\* self.available_memory -= size: the value is read
AllocateLoad(t) ==
  /\ threads[t].pc = "allocate_load"
  /\ threads' = [threads EXCEPT ![t].pc = "allocate_store",
                                ![t].tmp = available_memory]
  /\ UNCHANGED <<memVars, op, threadFrame>>

\* self.available_memory -= size: the difference is written
AllocateStore(t) ==
  /\ threads[t].pc = "allocate_store"
  /\ available_memory' = threads[t].tmp - threads[t].size
  /\ Goto(t, "allocate_record")
  /\ UNCHANGED <<allocated_memory, op, threadFrame>>

\* self.allocated_memory[pid] = size; return True
AllocateRecord(t) ==
  /\ threads[t].pc = "allocate_record"
  /\ allocated_memory' =
       DictSet(allocated_memory, threads[t].pid, threads[t].size)
  /\ Return(t)
  /\ op' = Call("allocate", threads[t].pid, threads[t].size, TRUE)
  /\ UNCHANGED <<available_memory, threadFrame>>

\* a thread calls deallocate(pid)
CallDeallocate(t, pid) ==
  /\ threads[t].pc = "idle"
  /\ threads[t].calls < MaxCalls
  /\ threads' = [threads EXCEPT ![t] =
                   [pc |-> "deallocate_if", pid |-> pid, size |-> 0,
                    tmp |-> 0, calls |-> @.calls + 1]]
  /\ UNCHANGED <<memVars, op, threadFrame>>

\* if pid in self.allocated_memory:
DeallocateIf(t) ==
  /\ threads[t].pc = "deallocate_if"
  /\ IF threads[t].pid \in DOMAIN allocated_memory
       THEN Goto(t, "deallocate_load") /\ UNCHANGED op
       ELSE /\ Return(t)
            /\ op' = Call("deallocate", threads[t].pid, 0, TRUE)
  /\ UNCHANGED <<memVars, threadFrame>>

\* self.available_memory += self.allocated_memory[pid]: the values are read;
\* KeyError when another thread has deleted the entry
DeallocateLoad(t) ==
  /\ threads[t].pc = "deallocate_load"
  /\ IF threads[t].pid \in DOMAIN allocated_memory
       THEN /\ threads' =
                 [threads EXCEPT
                    ![t].pc = "deallocate_store",
                    ![t].tmp = available_memory
                                 + allocated_memory[threads[t].pid]]
            /\ UNCHANGED op
       ELSE /\ Return(t)
            /\ op' = Call("deallocate", threads[t].pid, 0, FALSE)
  /\ UNCHANGED <<memVars, threadFrame>>

\* self.available_memory += self.allocated_memory[pid]: the sum is written
DeallocateStore(t) ==
  /\ threads[t].pc = "deallocate_store"
  /\ available_memory' = threads[t].tmp
  /\ Goto(t, "deallocate_del")
  /\ UNCHANGED <<allocated_memory, op, threadFrame>>

\* del self.allocated_memory[pid]; KeyError when another thread has deleted
\* the entry
DeallocateDel(t) ==
  /\ threads[t].pc = "deallocate_del"
  /\ IF threads[t].pid \in DOMAIN allocated_memory
       THEN /\ allocated_memory' = DictDel(allocated_memory, threads[t].pid)
            /\ op' = Call("deallocate", threads[t].pid, 0, TRUE)
       ELSE /\ UNCHANGED allocated_memory
            /\ op' = Call("deallocate", threads[t].pid, 0, FALSE)
  /\ Return(t)
  /\ UNCHANGED <<available_memory, threadFrame>>

\* ---------------------------------------------------------- specifications
Init ==
  /\ available_memory = total_memory
  /\ allocated_memory = EmptyDict
  /\ ready_queue = <<>>
  /\ current_process = None
  /\ processes = <<>>
  /\ state = [p \in Procs |-> Absent]
  /\ remaining_time = [p \in Procs |-> 0]
  /\ cpu_burst = [p \in Procs |-> 0]
  /\ memory_allocated = [p \in Procs |-> FALSE]
  /\ pid_of = [p \in Procs |-> 0]
  /\ priority = [p \in Procs |-> 0]
  /\ memory_required = [p \in Procs |-> 0]
  /\ running = FALSE
  /\ dock_apps = <<>>
  /\ pc = "main"
  /\ ticks = 0
  /\ op = Call("init", 0, 0, TRUE)
  /\ turns = [p \in Procs |-> 0]
  /\ wait = [p \in Procs |-> 0]
  /\ shadow = NoShadow
  /\ threads = [t \in Threads |-> Idle(0)]

\* the memory manager driven by arbitrary calls
AllocateCall == \E pid \in Pids, size \in Sizes : Allocate(pid, size)
DeallocateCall == \E pid \in Pids : Deallocate(pid)

NextMem == AllocateCall \/ DeallocateCall

SpecMem == Init /\ [][NextMem]_vars

\* the scheduler driven by arbitrary calls on Process objects that are
\* fresh (the whole burst is owed) or finished (remaining_time 0), with or
\* without memory; every object has its own pid
ConstructCall ==
  \E o \in 1..NumObjs, rt \in {0, MaxBurst}, m \in BOOLEAN :
    NewProcess(o, o, 1, MaxSize, rt, MaxBurst, m) /\ UNCHANGED <<shadow, threads>>

AddCall ==
  \E p \in Procs :
    Len(processes) < MaxAdds /\ add_process(p) /\ UNCHANGED <<shadow, threads>>

ScheduleCall == schedule /\ UNCHANGED <<shadow, threads>>

Next == ConstructCall \/ AddCall \/ ScheduleCall

Spec == Init /\ [][Next]_vars

\* round robin: every Process is fresh (its whole burst is still owed) and
\* is added once
ConstructReady ==
  \E o \in Procs, burst \in 1..MaxBurst :
    NewProcess(o, o, 1, MaxSize, burst, burst, TRUE) /\ UNCHANGED <<shadow, threads>>

AddOnce ==
  \E p \in Procs :
    p \notin Range(processes) /\ add_process(p) /\ UNCHANGED <<shadow, threads>>

NextRR == ConstructReady \/ AddOnce \/ ScheduleCall

SpecRR == Init /\ [][NextRR]_vars

\* the simulator's parts driven together: a caller constructs Process
\* objects with any pid, memory need and flag, reserves and releases memory
\* for them, and adds and schedules them
ConstructSim ==
  \E o \in 1..NumObjs, id \in Pids, req \in 1..MaxSize, m \in BOOLEAN :
    NewProcess(o, id, 1, req, MaxBurst, MaxBurst, m) /\ UNCHANGED <<shadow, threads>>

AllocateFor ==
  \E o \in Procs :
    state[o] # Absent /\ Allocate(pid_of[o], memory_required[o])

DeallocateFor == \E o \in Procs : state[o] # Absent /\ Deallocate(pid_of[o])

CreateFromDock == create_process_from_dock

NextSim ==
  \/ ConstructSim
  \/ CreateFromDock
  \/ AllocateFor
  \/ DeallocateFor
  \/ AddCall
  \/ ScheduleCall

SpecSim == Init /\ [][NextSim]_vars

\* two runs of the scheduler side by side: the same objects, remaining
\* times and calls, the priorities chosen independently in each run
ConstructPair ==
  \E o \in 1..NumObjs, rt \in {0, MaxBurst},
     prio \in {1, MaxPriority}, prio2 \in {1, MaxPriority} :
    /\ NewProcess(o, o, prio, MaxSize, rt, MaxBurst, TRUE)
    /\ ShadowNew(o, prio2)
    /\ UNCHANGED threads

AddPair ==
  \E p \in Procs :
    /\ p \notin Range(processes)
    /\ add_process(p)
    /\ ShadowAdd(p)
    /\ UNCHANGED threads

SchedulePair == schedule /\ ShadowSchedule /\ UNCHANGED threads

NextPrio == ConstructPair \/ AddPair \/ SchedulePair

SpecPrio == Init /\ [][NextPrio]_vars

\* threads that call allocate and deallocate with no lock held
ThreadCalls ==
  \E t \in Threads :
    \/ \E pid \in Pids, size \in Sizes : CallAllocate(t, pid, size)
    \/ \E pid \in Pids : CallDeallocate(t, pid)

AllocateSteps ==
  \E t \in Threads :
    \/ AllocateIf(t)
    \/ AllocateLoad(t)
    \/ AllocateStore(t)
    \/ AllocateRecord(t)

DeallocateSteps ==
  \E t \in Threads :
    \/ DeallocateIf(t)
    \/ DeallocateLoad(t)
    \/ DeallocateStore(t)
    \/ DeallocateDel(t)

NextThreads == ThreadCalls \/ AllocateSteps \/ DeallocateSteps

SpecThreads == Init /\ [][NextThreads]_vars

\* the monitoring loop of main() / start()
NextLoop ==
  \/ Construct
  \/ Start
  \/ WhileTest
  \/ DisplayStatus
  \/ DisplayRaises
  \/ Sleep
  \/ KeyboardInterrupt
  \/ InterruptOutsideTry

SpecLoop == Init /\ [][NextLoop]_vars

\* ------------------------------------------------------------ properties
Running == {p \in Procs : state[p] = "RUNNING"}

Queued == Range(ready_queue)

Added == Range(processes)

\* C1: after any sequence of allocate / deallocate calls the sum of the
\* reservations in allocated_memory is at most total_memory.
C1_SumWithinTotal == SumValues(allocated_memory) <= total_memory

\* C1 witness: a successful allocate has filled the pool completely
C1_Witness ==
  /\ op.name = "allocate"
  /\ op.ret = TRUE
  /\ SumValues(allocated_memory) = total_memory

\* C2: after a call to schedule() at most one process is RUNNING.
C2_AtMostOneRunning == op.name = "schedule" => Cardinality(Running) <= 1

\* C3: every process whose state is RUNNING has memory_allocated = true.
C3_RunningHasMemory == \A p \in Procs : state[p] = "RUNNING" => memory_allocated[p]

\* C4: available_memory equals total_memory minus the sum of the
\* reservations, also after allocate is called again for a pid that
\* already holds one.
C4_AvailableIsTotalMinusSum ==
  available_memory = total_memory - SumValues(allocated_memory)

\* C5: allocate(pid, size) returns false exactly when size exceeds
\* available_memory, a failed call leaves the pool unchanged, and a request
\* of exactly available_memory succeeds.
C5_AllocateFailsOnlyWhenTooLarge ==
  [][op'.name = "allocate" =>
       /\ (op'.ret = FALSE) <=> (op'.size > available_memory)
       /\ (op'.ret = FALSE) => UNCHANGED memVars
       /\ (op'.size = available_memory) => (op'.ret = TRUE)]_vars

\* C5 witness: an allocate call has been refused for lack of memory
C5_Witness ==
  /\ op.name = "allocate"
  /\ op.ret = FALSE
  /\ op.size > available_memory
  /\ allocated_memory # EmptyDict

\* C6: when allocate(pid, size) returns true, available_memory has gone
\* down by exactly size, allocated_memory[pid] = size and the reservation of
\* every other pid is as it was.
C6_AllocateFrame ==
  [][(op'.name = "allocate" /\ op'.ret = TRUE) =>
       /\ available_memory' = available_memory - op'.size
       /\ op'.pid \in DOMAIN allocated_memory'
       /\ allocated_memory'[op'.pid] = op'.size
       /\ \A p \in Pids \ {op'.pid} :
            /\ (p \in DOMAIN allocated_memory') <=> (p \in DOMAIN allocated_memory)
            /\ (p \in DOMAIN allocated_memory) =>
                 allocated_memory'[p] = allocated_memory[p]]_vars

\* C6 witness: a successful allocate of a positive size while another pid
\* holds a reservation
C6_Witness ==
  /\ op.name = "allocate"
  /\ op.ret = TRUE
  /\ op.size > 0
  /\ \E p \in DOMAIN allocated_memory : p # op.pid /\ allocated_memory[p] > 0

\* C7: deallocate is idempotent: in every pool state a second deallocate(pid)
\* gives the pool the first one gave, a deallocate(pid) leaves pid without a
\* reservation, and a deallocate(pid) for a pid without a reservation
\* changes nothing.
C7_DeallocateIdempotent ==
  [][/\ \A pid \in Pids :
          LET once == deallocate(available_memory, allocated_memory, pid)
              twice == deallocate(once.available_memory,
                                  once.allocated_memory, pid)
          IN twice = once
     /\ (op'.name = "deallocate") =>
          /\ op'.pid \notin DOMAIN allocated_memory'
          /\ (op'.pid \notin DOMAIN allocated_memory) => UNCHANGED memVars]_vars

\* C7 witness: a deallocate has run and left the pool partly reserved
C7_Witness ==
  /\ op.name = "deallocate"
  /\ op.pid \notin DOMAIN allocated_memory
  /\ allocated_memory # EmptyDict
  /\ available_memory < total_memory

\* C8: add_process(p) sets p READY and appends it at the tail of the ready
\* queue, unless p is already in the scheduler, in which case the queue is
\* left as it is.
C8_AddIdempotent ==
  [][\A p \in Procs :
       (op'.name = "add_process" /\ op'.pid = p) =>
         /\ state'[p] = "READY"
         /\ IF p \in Queued \/ p = current_process
              THEN ready_queue' = ready_queue
              ELSE ready_queue' = Append(ready_queue, p)]_vars

\* C9: with every process added once and never finishing, at most N-1
\* schedule() calls select another process while a given process waits for
\* its (next) turn, N being the number of processes in the scheduler; in
\* execution units the wait is at most time_quantum * (N-1).
C9_BoundedWait ==
  \A p \in Added :
    /\ wait[p] <= Cardinality(Added) - 1
    /\ time_quantum * wait[p] <= time_quantum * (Cardinality(Added) - 1)

\* C9 witness: a process that has had a turn has waited through the turns of
\* all the others
C9_Witness ==
  /\ Added = Procs
  /\ \E p \in Procs :
       /\ turns[p] >= 1
       /\ state[p] = "READY"
       /\ wait[p] = NumProcs - 1

\* C10: a process of burst b is RUNNING for exactly ceil(b / time_quantum)
\* turns and is TERMINATED once the last of them is over.
C10_RunsCeilTurnsThenTerminated ==
  \A p \in Added :
    /\ turns[p] <= CeilDiv(cpu_burst[p], time_quantum)
    /\ (turns[p] = CeilDiv(cpu_burst[p], time_quantum) /\ current_process # p)
         => state[p] = "TERMINATED"

\* C11: every change of a process's state is one of the allowed transitions,
\* a process is created in state NEW, and add_process never changes the
\* state of a RUNNING or TERMINATED process.
C11_OnlyAllowedTransitions ==
  [][\A p \in Procs :
       state'[p] # state[p] =>
         /\ IF state[p] = Absent
              THEN state'[p] = "NEW"
              ELSE <<state[p], state'[p]>> \in
                     {<<"NEW", "READY">>, <<"READY", "RUNNING">>,
                      <<"RUNNING", "READY">>, <<"RUNNING", "TERMINATED">>,
                      <<"READY", "WAITING">>, <<"RUNNING", "WAITING">>,
                      <<"WAITING", "READY">>}
         /\ (op'.name = "add_process" /\ op'.pid = p) =>
              state[p] \notin {"RUNNING", "TERMINATED"}]_vars

\* C12: a failing or empty Dock enumeration during a tick is not fatal: the
\* tick goes on with an empty snapshot and the loop keeps running.
C12_SourceFailureNotFatal ==
  [][(op'.name = "display_status" /\ (op'.ret = FALSE \/ op'.size = 0)) =>
       /\ running'
       /\ dock_apps' = <<>>
       /\ pc' = "sleep"]_vars

Created == {p \in Procs : state[p] # Absent}

\* C13: no pid is tracked twice by the scheduler: the entries of the ready
\* queue have different pids, so have the entries of the processes list, and
\* no queue entry has the pid of the current process.
C13_UniquePids ==
  /\ \A i, j \in DOMAIN ready_queue :
       i # j => pid_of[ready_queue[i]] # pid_of[ready_queue[j]]
  /\ \A i, j \in DOMAIN processes :
       i # j => pid_of[processes[i]] # pid_of[processes[j]]
  /\ current_process # None =>
       \A i \in DOMAIN ready_queue :
         pid_of[ready_queue[i]] # pid_of[current_process]

\* C14: a process's memory_allocated flag is true exactly when its pid is a
\* key of allocated_memory.
C14_FlagIffReserved ==
  \A p \in Created :
    memory_allocated[p] <=> (pid_of[p] \in DOMAIN allocated_memory)

\* C15: a process whose allocate(pid, memory_required) fails is put in state
\* WAITING.
C15_FailedAllocateParks ==
  [][(op'.name = "allocate" /\ op'.ret = FALSE) =>
       \A p \in Created :
         (pid_of[p] = op'.pid /\ memory_required[p] = op'.size) =>
           state'[p] = "WAITING"]_vars

\* C16: a schedule() call made while a process is RUNNING lowers that
\* process's remaining_time by min(time_quantum, remaining_time), which
\* never becomes negative.
C16_ScheduleDecrements ==
  [][op'.name = "schedule" =>
       /\ \A p \in Procs : remaining_time'[p] >= 0
       /\ (current_process # None /\ state[current_process] = "RUNNING") =>
            remaining_time'[current_process] =
              remaining_time[current_process]
                - Min(time_quantum, remaining_time[current_process])]_vars

\* C17: when schedule() finds the current process RUNNING with
\* remaining_time 0, that process is TERMINATED after the call, its pid has
\* no reservation left and it is not in the ready queue.
C17_ExhaustedIsTerminated ==
  [][(/\ op'.name = "schedule"
      /\ current_process # None
      /\ state[current_process] = "RUNNING"
      /\ remaining_time[current_process] = 0) =>
       /\ state'[current_process] = "TERMINATED"
       /\ pid_of[current_process] \notin DOMAIN allocated_memory'
       /\ current_process \notin Range(ready_queue')]_vars

\* position of the first add_process(p) call in the processes list
FirstAdd(p) == CHOOSE i \in DOMAIN processes :
                 processes[i] = p /\ \A j \in 1..(i - 1) : processes[j] # p

\* C18: the ready queue is strictly FIFO.  A schedule() call that finds
\* processes waiting runs the one at the head of the queue, the one waiting
\* longest; a preempted process with work left is set READY and goes behind
\* everything that was waiting; and a process added before another one gets
\* its first turn no later than the other.
C18_StrictFifo ==
  [][op'.name = "schedule" =>
       /\ ready_queue # <<>> =>
            /\ current_process' = Head(ready_queue)
            /\ state'[current_process'] = "RUNNING"
            /\ IF Requeue(current_process)
                 THEN /\ ready_queue' =
                           Append(Tail(ready_queue), current_process)
                      /\ current_process # Head(ready_queue) =>
                           state'[current_process] = "READY"
                 ELSE ready_queue' = Tail(ready_queue)
       /\ \A p, q \in Added :
            (FirstAdd(p) < FirstAdd(q) /\ turns'[q] >= 1) => turns'[p] >= 1]_vars

\* C18 witness: after a schedule() call a preempted process with work left
\* stands READY at the tail of the queue, behind an entry that was waiting
C18_Witness ==
  /\ op.name = "schedule"
  /\ Len(ready_queue) >= 2
  /\ current_process # None
  /\ LET last == ready_queue[Len(ready_queue)]
     IN /\ state[last] = "READY"
        /\ turns[last] >= 1
        /\ last # current_process
        /\ remaining_time[last] > 0

\* C19: when a schedule() call finds nothing to run (the ready queue is
\* empty once the outgoing process has been dealt with), no process is
\* RUNNING after the call and current_process is empty.
C19_IdleTickEmptiesSlot ==
  [][(/\ op'.name = "schedule"
      /\ ready_queue = <<>>
      /\ ~Requeue(current_process)) =>
       /\ current_process' = None
       /\ \A p \in Procs : state'[p] # "RUNNING"]_vars

\* C20: the processes chosen to run do not depend on priority: two runs
\* that receive the same add_process and schedule calls on processes with
\* the same remaining times, and differ only in the priorities, have the
\* same current process, the same ready queue and the same process states
\* after every call.
C20_PriorityIsIgnored ==
  /\ shadow.current_process = current_process
  /\ shadow.ready_queue = ready_queue
  /\ shadow.state = state

\* C20 witness: two processes whose priorities are ordered one way in the
\* first run and the other way in the second have both had a turn
C20_Witness ==
  /\ op.name = "schedule"
  /\ \E p, q \in Added :
       /\ priority[p] < priority[q]
       /\ shadow.priority[p] > shadow.priority[q]
       /\ turns[p] >= 1
       /\ turns[q] >= 1

\* number of entries of p in the ready queue
Entries(p) == Cardinality({i \in DOMAIN ready_queue : ready_queue[i] = p})

\* C23: when every process is added at most once with remaining_time > 0,
\* each added process occupies exactly one place after any add_process and
\* schedule calls: it is the current process, RUNNING and not queued, or it
\* has exactly one ready-queue entry, is READY and is not the current process.
C23_ExactlyOnePlace ==
  \A p \in Added :
    \/ /\ current_process = p
       /\ state[p] = "RUNNING"
       /\ Entries(p) = 0
    \/ /\ current_process # p
       /\ state[p] = "READY"
       /\ Entries(p) = 1

\* C23 witness: all processes are added, and one of them has been preempted,
\* requeued and selected a second time
C23_Witness ==
  /\ op.name = "schedule"
  /\ Added = Procs
  /\ \E p \in Procs : turns[p] >= 2 /\ current_process = p

\* C24: schedule() is work-conserving: when before the call the ready queue
\* is not empty or the current process is RUNNING with remaining_time > 0,
\* exactly one process is RUNNING after the call and it is the current
\* process; a sole runnable process is selected again.
C24_WorkConserving ==
  [][(op'.name = "schedule" /\ (ready_queue # <<>> \/ Requeue(current_process)))
       => /\ Running' = {current_process'}
          /\ (ready_queue = <<>> => current_process' = current_process)]_vars

\* C22: a stop signal halts start() only after the iteration in progress
\* has completed: a keyboard interrupt that arrives while display_status()
\* or sleep() runs leaves the iteration where it is, to be finished before
\* the loop is left, and the loop is never left with an iteration half done.
C22_StopAfterTick ==
  [][op'.name = "KeyboardInterrupt" =>
       (pc \in {"display", "sleep"} => pc' = pc)]_vars

\* C21: the memory pool is only changed inside an exclusive critical
\* section, so that threads calling allocate and deallocate cannot break the
\* pool invariant by interleaving: whenever no call is in progress,
\* available_memory is not negative and the sizes on record add up to at
\* most total_memory.
C21_PoolSafeUnderInterleaving ==
  (\A t \in Threads : threads[t].pc = "idle") =>
     /\ available_memory >= 0
     /\ SumValues(allocated_memory) <= total_memory

====
